---------------------------- MODULE Spec2Model ----------------------------
(***************************************************************************)
(* A model of shuffle4g: the builder of the iPod shuffle iTunesSD          *)
(* database (src/shuffle4g/core.py, src/shuffle4g/utils.py and the entry   *)
(* point src/src/shuffle4g/cli.py).                                        *)
(*                                                                         *)
(* Four specifications share the variables:                                *)
(*   Spec         a run of initialize, populate and write_database;        *)
(*   SpecLong     the same run on devices with a file name longer than     *)
(*                the filename field of a track record;                    *)
(*   SpecPath     Record.path_to_ipod followed by Record.ipod_to_path;     *)
(*   SpecUnicode  check_unicode run repeatedly over a device.              *)
(*                                                                         *)
(* Python strings are TLA+ strings; a character is a string of length 1.   *)
(* The alphabet is a part of ASCII.  One glyph is borrowed to name a       *)
(* character that cannot be written in an ASCII file: "^" names U+03A9     *)
(* (GREEK CAPITAL OMEGA, code point 937), which latin-1 cannot encode.     *)
(*                                                                         *)
(* The database file is kept as the sequence of its records: each segment  *)
(* has its kind (the header_id), its length in bytes and the fields the    *)
(* properties read.                                                        *)
(***************************************************************************)
EXTENDS Integers, Sequences, FiniteSets, TLC

VARIABLES
    pc,         \* position of the run
    path,       \* Shuffler.path: the device root (os.path.abspath of the argument)
    cwd,        \* the working directory of the process
    filename,   \* argument of Record.path_to_ipod
    raised,     \* whether path_to_ipod raised IOError
    ipodname,   \* value returned by path_to_ipod
    hostpath,   \* value returned by ipod_to_path
    fsFiles,    \* the regular files of the filesystem (absolute paths)
    fsDirs,     \* the directories of the filesystem (absolute paths)
    fsTags,     \* what mutagen.File gives for each file read so far
    config,     \* the Shuffler options and whether mutagen was imported
    walk,       \* os.walk: the directories still to be visited, next first
    tracks,     \* Shuffler.tracks
    albums,     \* Shuffler.albums
    artists,    \* Shuffler.artists
    lists,      \* Shuffler.lists
    sdfile,     \* iPod_Control/iTunes/iTunesSD on the device
    out,        \* the records and byte strings TunesSD.construct has built so far
    pass,       \* how many times check_unicode has run over the device
    renamed,    \* the os.rename calls of its last run, as <<src, dest>>
    stdout,     \* the errors the run has printed, in order
    ttsCalls,   \* the subprocess calls of Text2Speech, in order
    scans       \* Shuffler.tracks of the earlier runs over the same device

codecVars == <<filename, raised, ipodname, hostpath>>

fsVars == <<fsFiles, fsDirs, fsTags>>

dbVars == <<config, walk, tracks, albums, artists, lists, sdfile, out>>

uniVars == <<pass, renamed>>

ioVars == <<stdout, ttsCalls>>

vars == <<pc, path, cwd, codecVars, fsVars, dbVars, uniVars, ioVars, scans>>

-----------------------------------------------------------------------------
(* Bounds *)

MaxPathLen == 5

MaxFiles == 3

MaxLines == 2

LongStem == 240

\* the runs of check_unicode over one device
MaxPasses == 2

-----------------------------------------------------------------------------
(* Python str and list primitives *)

Min(S) == CHOOSE m \in S : \A n \in S : m <= n

Max(S) == CHOOSE m \in S : \A n \in S : m >= n

Ch(s, i) == SubSeq(s, i, i)

Slice(s, i) == SubSeq(s, i + 1, Len(s))    \* s[i:]

StartsWith(s, p) == Len(p) <= Len(s) /\ SubSeq(s, 1, Len(p)) = p

EndsWith(s, p) == Len(p) <= Len(s) /\ SubSeq(s, Len(s) - Len(p) + 1, Len(s)) = p

\* the positions at which sub occurs in s
Occurrences(s, sub) ==
    {i \in 1..(Len(s) - Len(sub) + 1) : SubSeq(s, i, i + Len(sub) - 1) = sub}

\* s.find(sub) + 1: the 1-based position of the first occurrence, or 0
Find(s, sub) == IF Occurrences(s, sub) = {} THEN 0 ELSE Min(Occurrences(s, sub))

\* s.rfind(sub) + 1
RFind(s, sub) == IF Occurrences(s, sub) = {} THEN 0 ELSE Max(Occurrences(s, sub))

Contains(s, sub) == Find(s, sub) > 0

RECURSIVE Split(_, _)
Split(s, sep) ==
    LET i == Find(s, sep)
    IN IF i = 0 THEN <<s>>
       ELSE <<SubSeq(s, 1, i - 1)>> \o Split(SubSeq(s, i + Len(sep), Len(s)), sep)

RECURSIVE Join(_, _)
Join(parts, sep) ==
    IF parts = <<>> THEN ""
    ELSE IF Len(parts) = 1 THEN parts[1]
    ELSE parts[1] \o sep \o Join(Tail(parts), sep)

Digits == "0123456789"

UpperCase == "ABCDEFGHIJKLMNOPQRSTUVWXYZ"

LowerCase == "abcdefghijklmnopqrstuvwxyz"

\* ord(c) for the characters of the model's alphabet; "^" names U+03A9
Ord(c) ==
    IF Contains(Digits, c) THEN 47 + Find(Digits, c)
    ELSE IF Contains(UpperCase, c) THEN 64 + Find(UpperCase, c)
    ELSE IF Contains(LowerCase, c) THEN 96 + Find(LowerCase, c)
    ELSE CASE c = " " -> 32 [] c = "#" -> 35 [] c = "%" -> 37 [] c = "-" -> 45
           [] c = "." -> 46 [] c = "/" -> 47 [] c = ":" -> 58 [] c = "=" -> 61
           [] c = "_" -> 95 [] c = "{" -> 123 [] c = "}" -> 125 [] c = "^" -> 937

\* c.lower()
LowerCh(c) ==
    IF c # "" /\ Contains(UpperCase, c) THEN Ch(LowerCase, Find(UpperCase, c)) ELSE c

\* s.lower()
RECURSIVE Lower(_)
Lower(s) ==
    IF Len(s) <= 1 THEN LowerCh(s)
    ELSE Lower(SubSeq(s, 1, Len(s) \div 2)) \o Lower(Slice(s, Len(s) \div 2))

\* the positions at which s and t both have a character, and not the same one
Differences(s, t) == {i \in 1..Min({Len(s), Len(t)}) : Ch(s, i) # Ch(t, i)}

\* s < t for Python strings: by code point at the first difference, a proper
\* prefix first
StrLess(s, t) ==
    IF Differences(s, t) = {} THEN Len(s) < Len(t)
    ELSE LET d == Min(Differences(s, t)) IN Ord(Ch(s, d)) < Ord(Ch(t, d))

StrLeq(s, t) == s = t \/ StrLess(s, t)

-----------------------------------------------------------------------------
(* os.path on a POSIX host *)

SEP == "/"

\* os.path.commonprefix of two strings: character by character
CommonPrefix(a, b) ==
    IF Differences(a, b) = {} THEN SubSeq(a, 1, Min({Len(a), Len(b)}))
    ELSE SubSeq(a, 1, Min(Differences(a, b)) - 1)

OsPathJoin(a, b) ==
    IF StartsWith(b, SEP) THEN b
    ELSE IF a = "" \/ EndsWith(a, SEP) THEN a \o b
    ELSE a \o SEP \o b

RECURSIVE NormComps(_, _, _)
NormComps(comps, new, rooted) ==
    IF comps = <<>> THEN new
    ELSE LET comp == Head(comps) IN
         IF comp \in {"", "."} THEN NormComps(Tail(comps), new, rooted)
         ELSE IF comp # ".." \/ (~rooted /\ new = <<>>)
                 \/ (new # <<>> /\ new[Len(new)] = "..")
              THEN NormComps(Tail(comps), Append(new, comp), rooted)
         ELSE IF new # <<>>
              THEN NormComps(Tail(comps), SubSeq(new, 1, Len(new) - 1), rooted)
         ELSE NormComps(Tail(comps), new, rooted)

NormPath(p) ==
    IF p = "" THEN "."
    ELSE LET slashes == IF ~StartsWith(p, "/") THEN ""
                        ELSE IF StartsWith(p, "//") /\ ~StartsWith(p, "///") THEN "//"
                        ELSE "/"
             joined == slashes \o Join(NormComps(Split(p, "/"), <<>>, slashes # ""), "/")
         IN IF joined = "" THEN "." ELSE joined

AbsPath(p) == NormPath(IF StartsWith(p, "/") THEN p ELSE OsPathJoin(cwd, p))

\* os.path.basename
Basename(p) == Slice(p, RFind(p, SEP))

\* s.rstrip("/")
RECURSIVE RStripSep(_)
RStripSep(s) == IF EndsWith(s, SEP) THEN RStripSep(SubSeq(s, 1, Len(s) - 1)) ELSE s

\* os.path.dirname
Dirname(p) ==
    LET head == SubSeq(p, 1, RFind(p, SEP))
    IN IF RStripSep(head) = "" THEN head ELSE RStripSep(head)

\* os.path.splitext: <<root, ext>>; leading dots of the last component are no extension
SplitExt(p) ==
    LET sepIndex == RFind(p, SEP)
        dotIndex == RFind(p, ".")
    IN IF dotIndex > sepIndex
          /\ \E i \in (sepIndex + 1)..(dotIndex - 1) : Ch(p, i) # "."
       THEN <<SubSeq(p, 1, dotIndex - 1), Slice(p, dotIndex - 1)>>
       ELSE <<p, "">>

\* os.path.commonprefix of two lists: item by item
RECURSIVE CommonPrefixList(_, _)
CommonPrefixList(a, b) ==
    IF a = <<>> \/ b = <<>> \/ Head(a) # Head(b) THEN <<>>
    ELSE <<Head(a)>> \o CommonPrefixList(Tail(a), Tail(b))

NonEmpty(x) == x # ""

\* os.path.relpath(p, start)
RelPath(p, start) ==
    LET start_list == SelectSeq(Split(AbsPath(start), SEP), NonEmpty)
        path_list == SelectSeq(Split(AbsPath(p), SEP), NonEmpty)
        i == Len(CommonPrefixList(start_list, path_list))
        rel_list == [k \in 1..(Len(start_list) - i) |-> ".."]
                        \o SubSeq(path_list, i + 1, Len(path_list))
    IN IF rel_list = <<>> THEN "." ELSE Join(rel_list, SEP)

\* os.path.exists
Exists(p) == p # "" /\ AbsPath(p) \in fsFiles \cup fsDirs

\* os.path.isdir
IsDir(p) == p # "" /\ AbsPath(p) \in fsDirs

-----------------------------------------------------------------------------
(* Record: the path codec *)

\* Record.path_to_ipod: [raised |-> IOError raised, name |-> the value returned]
path_to_ipod(name) ==
    IF CommonPrefix(AbsPath(name), path) # path
    THEN [raised |-> TRUE, name |-> ""]
    ELSE LET baselen == IF EndsWith(path, SEP) THEN Len(path) - 1 ELSE Len(path)
         IN [raised |-> FALSE,
             name |-> Join(Split(Slice(AbsPath(name), baselen), SEP), "/")]

\* Record.ipod_to_path
ipod_to_path(name) == AbsPath(OsPathJoin(path, Join(Split(name, "/"), SEP)))

-----------------------------------------------------------------------------
(* utils.py *)

audio_ext == {".mp3", ".m4a", ".m4b", ".m4p", ".aa", ".wav"}

list_ext == {".pls", ".m3u"}

splitpath(p) == Split(p, SEP)

get_relpath(p, basepath) ==
    RelPath(p, Join(CommonPrefixList(splitpath(p), splitpath(basepath)), SEP))

is_path_prefix(prefix, p) ==
    prefix = Join(CommonPrefixList(splitpath(prefix), splitpath(p)), SEP)

-----------------------------------------------------------------------------
(* The filesystem: enumeration and sorting *)

\* p is d or lies below it
Under(p, d) == p = d \/ StartsWith(p, IF EndsWith(d, SEP) THEN d ELSE d \o SEP)

RECURSIVE Ancestors(_)
Ancestors(p) == IF Dirname(p) = p THEN {p} ELSE {p} \cup Ancestors(Dirname(p))

\* the names of the regular files and of the directories directly in d
FileNames(d) == {Basename(f) : f \in {g \in fsFiles : Dirname(g) = d}}

DirNames(d) == {Basename(x) : x \in {g \in fsDirs : g # d /\ Dirname(g) = d}}

\* the orders in which the filesystem may enumerate a set of names
RECURSIVE Enumerations(_)
Enumerations(S) ==
    IF S = {} THEN {<<>>}
    ELSE UNION {{<<x>> \o e : e \in Enumerations(S \ {x})} : x \in S}

\* list.sort / sorted on [key, val] items: stable, ascending by key
RECURSIVE Insert(_, _)
Insert(sorted, x) ==
    IF sorted = <<>> THEN <<x>>
    ELSE IF StrLess(x.key, Head(sorted).key) THEN <<x>> \o sorted
    ELSE <<Head(sorted)>> \o Insert(Tail(sorted), x)

RECURSIVE StableSort(_)
StableSort(items) ==
    IF items = <<>> THEN <<>>
    ELSE Insert(StableSort(SubSeq(items, 1, Len(items) - 1)), items[Len(items)])

Vals(items) == [i \in 1..Len(items) |-> items[i].val]

\* dirnames.sort(): the names are distinct, so the enumeration order is forgotten
RECURSIVE SortNames(_)
SortNames(S) ==
    IF S = {} THEN <<>>
    ELSE LET least == CHOOSE x \in S : \A y \in S : StrLeq(x, y)
         IN <<least>> \o SortNames(S \ {least})

\* a case-sensitive key: the order C1_DiscoveryOrder tells apart from the code's
FileSortKeyCaseSensitive(x) == x

\* the key of sorted(filenames, key = lambda x: x.lower())
FileSortKey(x) == Lower(x)

SortFilenames(names) ==
    Vals(StableSort([i \in 1..Len(names) |-> [key |-> FileSortKey(names[i]), val |-> names[i]]]))

\* sorted(filenames, ...) for every order in which os.walk may give the names S
SortedListings(S) == {SortFilenames(enum) : enum \in Enumerations(S)}

Ext(name) == Lower(SplitExt(name)[2])

\* s.count(sub)
Count(s, sub) == Len(Split(s, sub)) - 1

-----------------------------------------------------------------------------
(* Shuffler.initialize *)

VoiceoverDirs == {"iPod_Control/Speakable/Playlists", "iPod_Control/Speakable/Tracks"}

DeviceDirs == {"iPod_Control/iTunes", "iPod_Control/Music"} \cup VoiceoverDirs

\* shutil.rmtree(..., ignore_errors=True) of both voiceover directories, then
\* make_dir_if_absent (os.makedirs) of the four device directories
Initialize ==
    /\ pc = "initialize"
    /\ LET removed(p) == \E d \in VoiceoverDirs : Under(p, OsPathJoin(path, d))
       IN /\ fsFiles' = {f \in fsFiles : ~removed(f)}
          /\ fsDirs' = {d \in fsDirs : ~removed(d)}
                \cup {a \in UNION {Ancestors(OsPathJoin(path, d)) : d \in DeviceDirs} :
                        Under(a, path) \/ a \in fsDirs}
    /\ pc' = "populate"
    /\ UNCHANGED <<path, cwd, uniVars, scans, ioVars, codecVars, fsTags, dbVars>>

-----------------------------------------------------------------------------
(* mutagen and group_tracks_by_id3_template *)

\* what mutagen.File(f, easy=True) may give: an exception, None, or the tags
\* (each tag reduced to its first value)
TagOutcomes ==
    { [kind |-> "error", tags |-> <<>>],
      [kind |-> "none", tags |-> <<>>],
      [kind |-> "tags", tags |-> [artist |-> "X", album |-> "P", title |-> "T"]],
      [kind |-> "tags", tags |-> [album |-> "Q"]] }

\* the readings of the files fs that agree with what was read before
Readings(fs) ==
    {r \in [fs -> TagOutcomes] : \A f \in fs \cap DOMAIN fsTags : r[f] = fsTags[f]}

Remember(r) == [f \in DOMAIN fsTags \cup DOMAIN r |-> IF f \in DOMAIN r THEN r[f] ELSE fsTags[f]]

\* id3_dict.get(name, [''])[0]
TagValue(tags, name, default) == IF name \in DOMAIN tags THEN tags[name] ELSE default

\* re.findall(r'{.*?}', template), in order of occurrence
RECURSIVE FindVars(_)
FindVars(template) ==
    LET open == Find(template, "{")
        close == Find(Slice(template, open), "}")
    IN IF open = 0 \/ close = 0 THEN <<>>
       ELSE <<SubSeq(template, open, open + close)>> \o FindVars(Slice(template, open + close))

\* s.replace(old, new)
RECURSIVE Replace(_, _, _)
Replace(s, old, new) ==
    LET i == Find(s, old)
    IN IF i = 0 THEN s
       ELSE SubSeq(s, 1, i - 1) \o new \o Replace(Slice(s, i - 1 + Len(old)), old, new)

RECURSIVE RenderKey(_, _, _)
RenderKey(key, vs, tags) ==
    IF vs = <<>> THEN key
    ELSE LET var == Head(vs)
             val == TagValue(tags, SubSeq(var, 2, Len(var) - 1), "")
         IN RenderKey(Replace(key, var, val), Tail(vs), tags)

\* the loop of group_tracks_by_id3_template over the tracks ts, reading r:
\* the dictionary as a sequence of [key, val] in insertion order
RECURSIVE GroupLoop(_, _, _, _)
GroupLoop(ts, template, r, dict) ==
    IF ts = <<>> THEN dict
    ELSE LET track == Head(ts)
             id3_dict == IF r[track].kind = "tags" THEN r[track].tags ELSE <<>>
             vs == FindVars(template)
             key == RenderKey(template, vs, id3_dict)
             single_var_present ==
                 \E i \in 1..Len(vs) :
                     TagValue(id3_dict, SubSeq(vs[i], 2, Len(vs[i]) - 1), "") # ""
             at == {i \in 1..Len(dict) : dict[i].key = key}
             next == IF ~single_var_present THEN dict
                     ELSE IF at = {} THEN Append(dict, [key |-> key, val |-> <<track>>])
                     ELSE [dict EXCEPT ![Min(at)].val = Append(@, track)]
         IN GroupLoop(Tail(ts), template, r, next)

\* mutagen.File returned None for a track: id3_dict.get raises AttributeError
GroupRaises(ts, r) == \E i \in 1..Len(ts) : r[ts[i]].kind = "none"

\* the groups in the order in which the dictionary got them: the fault
\* C22_Groups must detect
GroupsUnsorted(ts, template, r) == GroupLoop(ts, template, r, <<>>)

\* sorted(grouped_tracks_dict.items())
group_tracks_by_id3_template(ts, template, r) == StableSort(GroupLoop(ts, template, r, <<>>))

-----------------------------------------------------------------------------
(* Shuffler.populate *)

\* a playlist source of Shuffler.lists: a path, or a (text, tracks) tuple
ListPath(p) == [tuple |-> FALSE, text |-> p, listtracks |-> <<>>]

ListTuple(g) == [tuple |-> TRUE, text |-> g.key, listtracks |-> g.val]

None == <<>>

\* a walk that looks into every directory: the fault C20_NothingHidden must
\* detect
ScansEveryDirectory(dirpath) == TRUE

\* the test of Shuffler.populate that ignores the speakable directory and any
\* hidden directories
ScansDirectory(dirpath) ==
    LET relpath == get_relpath(dirpath, path)
    IN ~is_path_prefix("iPod_Control/Speakable", relpath) /\ ~Contains(dirpath, "/.")

\* the test that ignores hidden files
HiddenFile(n) == StartsWith(n, ".")

\* one iteration of the loop over os.walk(self.path): the directory Head(walk),
\* whose files the filesystem enumerates in any order
PopulateWalk ==
    /\ pc = "populate"
    /\ walk # <<>>
    /\ LET dirpath == Head(walk) IN
       \E filenames \in SortedListings(FileNames(dirpath)) :
         LET dirnames == SortNames(DirNames(dirpath))
             visible == IF ScansDirectory(dirpath)
                        THEN SelectSeq(filenames, LAMBDA n : ~HiddenFile(n))
                        ELSE <<>>
             fullPath(n) == AbsPath(OsPathJoin(dirpath, n))
             found(exts) ==
                 LET names == SelectSeq(visible, LAMBDA n : Ext(n) \in exts)
                 IN [i \in 1..Len(names) |-> fullPath(names[i])]
             newlists == [i \in 1..Len(found(list_ext)) |-> ListPath(found(list_ext)[i])]
             auto == config.auto_dir_playlists
             depth == Count(Slice(dirpath, Len(path) + Len(SEP)), SEP) - 1
             dirlist ==
                 IF auto # None /\ auto[1] # 0
                       /\ Contains(dirpath, "iPod_Control/Music/")
                       /\ ~Contains(dirpath, "/.")
                       /\ (auto[1] < 0 \/ depth <= auto[1])
                 THEN <<ListPath(AbsPath(dirpath))>>
                 ELSE <<>>
         IN /\ tracks' = tracks \o found(audio_ext)
            /\ lists' = lists \o newlists \o dirlist
            /\ walk' = [i \in 1..Len(dirnames) |-> OsPathJoin(dirpath, dirnames[i])]
                          \o Tail(walk)
    /\ UNCHANGED <<pc, path, cwd, uniVars, scans, ioVars, codecVars, fsVars, config, albums,
                   artists, sdfile, out>>

\* the report of Shuffler.populate before it exits
NoMutagen ==
    [msg |-> "Error: No mutagen found. Cannot generate auto-id3-playlists.", about |-> ""]

\* the end of Shuffler.populate: the metadata-template playlists
PopulateId3 ==
    /\ pc = "populate"
    /\ walk = <<>>
    /\ IF config.auto_id3_playlists = None
       THEN pc' = "write_database" /\ UNCHANGED <<lists, fsTags, stdout>>
       ELSE IF ~config.mutagen
       THEN /\ pc' = "exit"
            /\ stdout' = Append(stdout, NoMutagen)
            /\ UNCHANGED <<lists, fsTags>>
       ELSE \E r \in Readings({tracks[i] : i \in 1..Len(tracks)}) :
              /\ fsTags' = Remember(r)
              /\ UNCHANGED stdout
              /\ IF GroupRaises(tracks, r)
                 THEN pc' = "crashed" /\ UNCHANGED lists
                 ELSE LET groups == group_tracks_by_id3_template(
                                        tracks, config.auto_id3_playlists[1], r)
                      IN /\ lists' = lists \o [i \in 1..Len(groups) |-> ListTuple(groups[i])]
                         /\ pc' = "write_database"
    /\ UNCHANGED <<path, cwd, uniVars, scans, ttsCalls, codecVars, fsFiles, fsDirs, config, walk,
                   tracks, albums, artists, sdfile, out>>

-----------------------------------------------------------------------------
(* Record: the struct layouts and Record.construct *)

RECURSIVE ParseInt(_)
ParseInt(s) ==
    IF s = "" THEN 0
    ELSE 10 * ParseInt(SubSeq(s, 1, Len(s) - 1)) + (Find(Digits, Ch(s, Len(s))) - 1)

\* struct.calcsize("<" + fmt)
Calcsize(fmt) ==
    CASE fmt = "B" -> 1 [] fmt = "H" -> 2 [] fmt = "I" -> 4 [] fmt = "Q" -> 8
      [] OTHER -> ParseInt(SubSeq(fmt, 1, Len(fmt) - 1))

\* a field that grows with its value: the fault C9_TrackOffsets must detect
PackSWhole(n, v) == [len |-> Max({n, Len(v)}), value |-> v]

\* struct.pack("<Ns", v): v cut or zero-padded to N bytes
PackS(n, v) == [len |-> n, value |-> SubSeq(v, 1, Min({n, Len(v)}))]

TunesSDStruct ==
    << <<"header_id", "4s">>, <<"unknown1", "I">>, <<"total_length", "I">>,
       <<"total_number_of_tracks", "I">>, <<"total_number_of_playlists", "I">>,
       <<"unknown2", "Q">>, <<"max_volume", "B">>, <<"voiceover_enabled", "B">>,
       <<"unknown3", "H">>, <<"total_tracks_without_podcasts", "I">>,
       <<"track_header_offset", "I">>, <<"playlist_header_offset", "I">>,
       <<"unknown4", "20s">> >>

TrackHeaderStruct ==
    << <<"header_id", "4s">>, <<"total_length", "I">>, <<"number_of_tracks", "I">>,
       <<"unknown1", "Q">> >>

TrackStruct ==
    << <<"header_id", "4s">>, <<"header_length", "I">>, <<"start_at_pos_ms", "I">>,
       <<"stop_at_pos_ms", "I">>, <<"volume_gain", "I">>, <<"filetype", "I">>,
       <<"filename", "256s">>, <<"bookmark", "I">>, <<"dontskip", "B">>,
       <<"remember", "B">>, <<"unintalbum", "B">>, <<"unknown", "B">>,
       <<"pregap", "I">>, <<"postgap", "I">>, <<"numsamples", "I">>,
       <<"unknown2", "I">>, <<"gapless", "I">>, <<"unknown3", "I">>,
       <<"albumid", "I">>, <<"track", "H">>, <<"disc", "H">>, <<"unknown4", "Q">>,
       <<"dbid", "8s">>, <<"artistid", "I">>, <<"unknown5", "32s">> >>

PlaylistHeaderStruct ==
    << <<"header_id", "4s">>, <<"total_length", "I">>, <<"number_of_playlists", "I">>,
       <<"number_of_non_podcast_lists", "2s">>, <<"number_of_master_lists", "2s">>,
       <<"number_of_non_audiobook_lists", "2s">>, <<"unknown2", "2s">> >>

PlaylistStruct ==
    << <<"header_id", "4s">>, <<"total_length", "I">>, <<"number_of_songs", "I">>,
       <<"number_of_nonaudio", "I">>, <<"dbid", "8s">>, <<"listtype", "I">>,
       <<"unknown1", "16s">> >>

\* len(Record.construct(self)): every field packed with its format; svalues
\* gives the byte strings stored in "Ns" fields (the others hold their defaults)
RECURSIVE ConstructLen(_, _)
ConstructLen(struct, svalues) ==
    IF struct = <<>> THEN 0
    ELSE LET name == Head(struct)[1]
             fmt == Head(struct)[2]
             size == IF name \in DOMAIN svalues
                     THEN PackS(Calcsize(fmt), svalues[name]).len
                     ELSE Calcsize(fmt)
         IN size + ConstructLen(Tail(struct), svalues)

NoValues == <<>>

\* len() of a byte string kept as a sequence of records and offsets
RECURSIVE BytesLen(_)
BytesLen(segs) == IF segs = <<>> THEN 0 ELSE Head(segs).len + BytesLen(Tail(segs))

\* struct.pack("I", n)
PackI(n) == [kind |-> "I", len |-> Calcsize("I"), value |-> n]

\* hashlib.md5(text).digest()[:8], kept as the text it digests
Md5Dbid(text) == <<"md5", text>>

ZeroDbid == <<"zero", "">>

\* list.index + 1, or 0 when x is not in the list
Index(list, x) ==
    LET I == {i \in 1..Len(list) : list[i] = x} IN IF I = {} THEN 0 ELSE Min(I)

-----------------------------------------------------------------------------
(* Text2Speech and Record.text_to_speech *)

\* what subprocess.call of a voiceover program may do: write the clip, end
\* without a clip, or fail to start the program (OSError)
TtsOutcomes == {"clip", "failed", "cannot start"}

\* ''.join(format(x, '02x') for x in reversed(dbid)): the name of a digest, kept
\* as the text it digests
ClipName(dbid) == dbid[1] \o "-" \o dbid[2]

\* the path Record.text_to_speech gives the clip of a dbid
WavPath(dbid, playlist) ==
    OsPathJoin(OsPathJoin(OsPathJoin(OsPathJoin(path, "iPod_Control"), "Speakable"),
                          IF playlist THEN "Playlists" ELSE "Tracks"),
               ClipName(dbid) \o ".wav")

\* Text2Speech.text2speech(out_wav_path, text) for a text that guess_lang takes
\* for English, when the program called does what outcome says: the files
\* afterwards, the subprocess calls made, whether OSError was raised, the result
text2speech(out_wav_path, text, outcome) ==
    IF out_wav_path \in fsFiles
    THEN [files |-> fsFiles, calls |-> <<>>, raised |-> FALSE, result |-> TRUE]
    ELSE IF ~config.valid_tts
    THEN [files |-> fsFiles, calls |-> <<>>, raised |-> FALSE, result |-> FALSE]
    ELSE [files |-> IF outcome = "clip" THEN fsFiles \cup {out_wav_path} ELSE fsFiles,
          calls |-> << [program |-> "pico2wave", wav |-> out_wav_path, text |-> text] >>,
          raised |-> outcome = "cannot start",
          result |-> TRUE]

\* Record.text_to_speech
text_to_speech(text, dbid, playlist, outcome) ==
    IF (config.track_voiceover /\ ~playlist) \/ (config.playlist_voiceover /\ playlist)
    THEN text2speech(WavPath(dbid, playlist), text, outcome)
    ELSE [files |-> fsFiles, calls |-> <<>>, raised |-> FALSE, result |-> FALSE]

\* the outcomes to consider for a call of Record.text_to_speech
TtsChoices(playlist) ==
    IF config.valid_tts /\ (IF playlist THEN config.playlist_voiceover
                                        ELSE config.track_voiceover)
    THEN TtsOutcomes ELSE {"clip"}

\* what Shuffler.write_database prints when it catches IOError
IoError == [msg |-> "Error: Writing iPod database failed.", about |-> ""]

\* what Track.populate prints when mutagen.File raises
MutagenError == [msg |-> "Error calling mutagen", about |-> ""]

-----------------------------------------------------------------------------
(* Track.populate and TrackHeader.construct *)

\* a table that gives every name a new ID: the fault C2_DedupTables must detect
DedupAlwaysAppends(table, name) == <<Len(table), Append(table, name)>>

\* the dedup of Track.populate, lines 238-249: <<id, table afterwards>>
Dedup(table, name) ==
    IF Index(table, name) > 0 THEN <<Index(table, name) - 1, table>>
    ELSE <<Len(table), Append(table, name)>>

\* Track.populate(file) with the metadata read as reading, then Track.construct:
\* the record, and the artist and album tables afterwards
TrackPopulate(file, reading) ==
    LET audio == config.mutagen /\ reading.kind = "tags" /\ DOMAIN reading.tags # {}
        artist == Dedup(artists, TagValue(reading.tags, "artist", "Unknown"))
        album == Dedup(albums, TagValue(reading.tags, "album", "Unknown"))
        stem == SplitExt(Basename(file))[1]
        text == IF audio /\ TagValue(reading.tags, "title", "") # ""
                        /\ TagValue(reading.tags, "artist", "") # ""
                THEN reading.tags["title"] \o " - " \o reading.tags["artist"]
                ELSE stem
        name == path_to_ipod(file).name
    IN [record |->
          [kind |-> "shtr",
           len |-> ConstructLen(TrackStruct, [filename |-> name]),
           filename |-> PackS(Calcsize("256s"), name).value,
           filetype |-> IF Ext(file) \in {".m4a", ".m4b", ".m4p", ".aa"} THEN 2 ELSE 1,
           tagged |-> audio,
           artistid |-> IF audio THEN artist[1] ELSE 0,
           albumid |-> IF audio THEN album[1] ELSE 0,
           dbid |-> Md5Dbid(text)],
        artists |-> IF audio THEN artist[2] ELSE artists,
        albums |-> IF audio THEN album[2] ELSE albums]

\* with open(..., "wb") as f, and the start of TunesSD.construct and of
\* TrackHeader.construct
WriteDatabaseOpen ==
    /\ pc = "write_database"
    /\ sdfile' = <<>>
    /\ out' = [out EXCEPT
                 !.track_output =
                     << [kind |-> "shth",
                         len |-> ConstructLen(TrackHeaderStruct, NoValues),
                         total_length |-> 20 + (Len(tracks) * 4),
                         number_of_tracks |-> Len(tracks)] >>]
    /\ pc' = "tracks"
    /\ UNCHANGED <<path, cwd, uniVars, scans, ioVars, codecVars, fsVars, config, walk,
                   tracks, albums, artists, lists>>

\* the offset TrackHeader.construct stores for the next track
TrackOffset(base_offset, total_length, track_chunk) ==
    PackI(base_offset + total_length + BytesLen(track_chunk))

\* one iteration of the loop of TrackHeader.construct: Track.populate of the
\* next track, its offset, Track.construct. An IOError of path_to_ipod or an
\* OSError of the voiceover program ends the run in the handler of write_database.
ConstructTrack ==
    /\ pc = "tracks"
    /\ Len(out.track_chunk) < Len(tracks)
    /\ LET i == tracks[Len(out.track_chunk) + 1]
           base_offset == 64
       IN \E r \in Readings(IF config.mutagen THEN {i} ELSE {}), outcome \in TtsChoices(FALSE) :
          LET reading == IF config.mutagen THEN r[i] ELSE [kind |-> "none", tags |-> <<>>]
              track == TrackPopulate(i, reading)
              speech == text_to_speech(track.record.dbid[2], track.record.dbid, FALSE, outcome)
              errors == IF config.mutagen /\ reading.kind = "error"
                        THEN <<MutagenError>> ELSE <<>>
          IN IF path_to_ipod(i).raised
             THEN /\ pc' = "exit"
                  /\ stdout' = Append(stdout, IoError)
                  /\ UNCHANGED <<out, artists, albums, fsFiles, fsTags, ttsCalls>>
             ELSE /\ fsTags' = Remember(r)
                  /\ artists' = track.artists
                  /\ albums' = track.albums
                  /\ fsFiles' = speech.files
                  /\ ttsCalls' = ttsCalls \o speech.calls
                  /\ IF speech.raised
                     THEN /\ pc' = "exit"
                          /\ stdout' = stdout \o errors \o <<IoError>>
                          /\ UNCHANGED out
                     ELSE /\ pc' = "tracks"
                          /\ stdout' = stdout \o errors
                          /\ out' = [out EXCEPT
                               !.track_output = Append(@,
                                   TrackOffset(base_offset, out.track_output[1].total_length,
                                               out.track_chunk)),
                               !.track_chunk = Append(@, track.record)]
    /\ UNCHANGED <<path, cwd, uniVars, scans, codecVars, fsDirs, config, walk, tracks, lists,
                   sdfile>>

-----------------------------------------------------------------------------
(* utils.py: the unicode names *)

\* string.encode('latin-1') fails
raises_unicode_error(string) == \E i \in 1..Len(string) : Ord(Ch(string, i)) > 255

HexDigits == "0123456789abcdef"

RECURSIVE Digest(_, _)
Digest(s, h) == IF s = "" THEN h ELSE Digest(Slice(s, 1), (h * 31 + Ord(Ch(s, 1))) % 256)

\* hashlib.md5(item_bytes).hexdigest()[:8], shortened to two hexadecimal digits:
\* a digest that tells apart the names of the model
Md5Hex(item) ==
    LET h == Digest(item, 7) IN Ch(HexDigits, (h \div 16) + 1) \o Ch(HexDigits, (h % 16) + 1)

\* "{0:02X}".format(n) for n < 256
Format02X(n) == LET X == "0123456789ABCDEF" IN Ch(X, (n \div 16) + 1) \o Ch(X, (n % 16) + 1)

\* reversed(s)
RECURSIVE Reversed(_)
Reversed(s) == IF s = "" THEN "" ELSE Reversed(Slice(s, 1)) \o Ch(s, 1)

RECURSIVE FormatOrds(_)
FormatOrds(s) == IF s = "" THEN "" ELSE Format02X(Ord(Ch(s, 1))) \o FormatOrds(Slice(s, 1))

hash_error_unicode(item) == FormatOrds(Reversed(Md5Hex(item)))

RECURSIVE HashRaising(_)
HashRaising(path_list) ==
    IF path_list = <<>> THEN <<>>
    ELSE <<IF raises_unicode_error(Head(path_list))
           THEN hash_error_unicode(Head(path_list)) ELSE Head(path_list)>>
         \o HashRaising(Tail(path_list))

validate_unicode(p) ==
    LET path_list == Split(p, "/")
        last_raise == raises_unicode_error(path_list[Len(path_list)])
        extension == Lower(SplitExt(p)[2])
    IN Join(HashRaising(path_list), "/")
           \o (IF last_raise /\ extension \in audio_ext THEN extension ELSE "")

\* os.rename(src, dest) on the filesystem fs: the entry and all below it move
RenamePath(p, src, dest) ==
    IF p = src THEN dest
    ELSE IF StartsWith(p, src \o SEP) THEN dest \o Slice(p, Len(src))
    ELSE p

Rename(fs, src, dest) ==
    [files |-> {RenamePath(f, src, dest) : f \in fs.files},
     dirs |-> {RenamePath(d, src, dest) : d \in fs.dirs},
     renames |-> fs.renames \cup {<<src, dest>>}]

\* os.listdir(p) on the filesystem fs, in the orders the filesystem may give
Listdir(p, fs) ==
    Enumerations({Basename(x) : x \in {y \in fs.files \cup fs.dirs : y # p /\ Dirname(y) = p}})

\* check_unicode(p) on the filesystem fs: the outcomes [fs, ret_flag] that the
\* enumeration orders allow. CheckItems is its loop over the items left, with
\* the ret_flag so far.
RECURSIVE check_unicode(_, _), CheckItems(_, _, _, _)
check_unicode(p, fs) == UNION {CheckItems(p, items, fs, FALSE) : items \in Listdir(p, fs)}

CheckItems(p, items, fs, ret_flag) ==
    IF items = <<>> THEN {[fs |-> fs, ret_flag |-> ret_flag]}
    ELSE LET item == Head(items)
             full_path == OsPathJoin(p, item)
         IN IF full_path \in fs.files
            THEN IF Ext(item) \in audio_ext \cup list_ext
                 THEN LET dest == OsPathJoin(p, hash_error_unicode(item)) \o Ext(item)
                      IN CheckItems(p, Tail(items),
                                    IF raises_unicode_error(item)
                                    THEN Rename(fs, full_path, dest) ELSE fs,
                                    TRUE)
                 ELSE CheckItems(p, Tail(items), fs, ret_flag)
            ELSE IF full_path \in fs.dirs
            THEN UNION {LET flag == below.ret_flag \/ ret_flag
                            dest == OsPathJoin(p, hash_error_unicode(item))
                        IN CheckItems(p, Tail(items),
                                      IF flag /\ raises_unicode_error(item)
                                      THEN Rename(below.fs, full_path, dest) ELSE below.fs,
                                      flag)
                        : below \in check_unicode(full_path, fs)}
            ELSE CheckItems(p, Tail(items), fs, ret_flag)

\* cli.main with --rename-unicode: check_unicode(result.path), run again on the
\* tree that the run before has left
CheckUnicode ==
    /\ pc = "check_unicode"
    /\ pass < MaxPasses
    /\ \E outcome \in check_unicode(path, [files |-> fsFiles, dirs |-> fsDirs, renames |-> {}]) :
         /\ fsFiles' = outcome.fs.files
         /\ fsDirs' = outcome.fs.dirs
         /\ renamed' = outcome.fs.renames
    /\ pass' = pass + 1
    /\ UNCHANGED <<pc, path, cwd, codecVars, fsTags, dbVars, ioVars, scans>>

-----------------------------------------------------------------------------
(* Playlist *)

\* s.strip(), for the blanks of the model's alphabet
RECURSIVE Strip(_)
Strip(s) ==
    IF StartsWith(s, " ") THEN Strip(Slice(s, 1))
    ELSE IF EndsWith(s, " ") THEN Strip(SubSeq(s, 1, Len(s) - 1))
    ELSE s

RECURSIVE populate_m3u(_)
populate_m3u(data) ==
    IF data = <<>> THEN <<>>
    ELSE (IF ~StartsWith(Head(data), "#")
          THEN <<IF config.rename THEN validate_unicode(Strip(Head(data)))
                 ELSE Strip(Head(data))>>
          ELSE <<>>)
         \o populate_m3u(Tail(data))

\* the characters of the model's alphabet that ord and chr know
Alphabet == Digits \o UpperCase \o LowerCase \o " #%-./:=_{}"

\* chr(n) within the alphabet; a replacement character outside it
Chr(n) ==
    LET I == {i \in 1..Len(Alphabet) : Ord(Ch(Alphabet, i)) = n}
    IN IF I = {} THEN "?" ELSE Ch(Alphabet, Min(I))

\* the value of a hexadecimal digit, -1 for another character
HexValue(c) ==
    IF c # "" /\ Contains(HexDigits, LowerCh(c)) THEN Find(HexDigits, LowerCh(c)) - 1 ELSE -1

\* urllib.parse.unquote(s): every %XX becomes the character of that code
RECURSIVE Unquote(_)
Unquote(s) ==
    LET i == Find(s, "%")
        hi == HexValue(SubSeq(s, i + 1, i + 1))
        lo == HexValue(SubSeq(s, i + 2, i + 2))
    IN IF i = 0 THEN s
       ELSE IF Len(s) >= i + 2 /\ hi >= 0 /\ lo >= 0
       THEN SubSeq(s, 1, i - 1) \o Chr(16 * hi + lo) \o Unquote(Slice(s, i + 2))
       ELSE SubSeq(s, 1, i) \o Unquote(Slice(s, i))

\* int(s) succeeds: s is a string of decimal digits
IsInt(s) == s # "" /\ \A k \in 1..Len(s) : Contains(Digits, Ch(s, k))

\* sorted(sorttracks): tuples (num, filename) ascending
RECURSIVE InsertTuple(_, _)
InsertTuple(sorted, x) ==
    IF sorted = <<>> THEN <<x>>
    ELSE IF x[1] < Head(sorted)[1] \/ (x[1] = Head(sorted)[1] /\ StrLess(x[2], Head(sorted)[2]))
    THEN <<x>> \o sorted
    ELSE <<Head(sorted)>> \o InsertTuple(Tail(sorted), x)

\* the tuples left in the order of the lines: the fault C23_PlsOrder must detect
TuplesAsRead(items) == items

RECURSIVE SortTuples(_)
SortTuples(items) ==
    IF items = <<>> THEN <<>>
    ELSE InsertTuple(SortTuples(SubSeq(items, 1, Len(items) - 1)), items[Len(items)])

\* the loop of Playlist.populate_pls over the lines left: int() raises ValueError
\* for a key that is not "file" and a number, dataarr[1] raises IndexError for a
\* line without "="
RECURSIVE PlsLoop(_, _)
PlsLoop(data, sorttracks) ==
    IF data = <<>> THEN [raised |-> FALSE, sorttracks |-> sorttracks]
    ELSE LET dataarr == LET line == Strip(Head(data))
                            eq == Find(line, "=")
                        IN IF eq = 0 THEN <<line>>
                           ELSE <<SubSeq(line, 1, eq - 1), Slice(line, eq)>>
         IN IF ~StartsWith(Lower(dataarr[1]), "file")
            THEN PlsLoop(Tail(data), sorttracks)
            ELSE IF ~IsInt(Slice(dataarr[1], 4)) \/ Len(dataarr) < 2
            THEN [raised |-> TRUE, sorttracks |-> sorttracks]
            ELSE LET num == ParseInt(Slice(dataarr[1], 4))
                     unquoted == Strip(Unquote(dataarr[2]))
                     stripped == IF StartsWith(Lower(unquoted), "file://")
                                 THEN Slice(unquoted, 7) ELSE unquoted
                     name == IF config.rename THEN validate_unicode(stripped) ELSE stripped
                 IN PlsLoop(Tail(data), Append(sorttracks, <<num, name>>))

\* Playlist.populate_pls: whether it raised, and the listtracks it returns
populate_pls(data) ==
    LET loop == PlsLoop(data, <<>>)
        sorted == SortTuples(loop.sorttracks)
    IN [raised |-> loop.raised,
        listtracks |-> IF loop.raised THEN <<>> ELSE [k \in 1..Len(sorted) |-> sorted[k][2]]]

remove_relatives(relative, playlist) ==
    LET base == Dirname(AbsPath(playlist))
    IN IF ~Exists(relative) THEN OsPathJoin(base, relative) ELSE relative

\* Playlist.populate_directory: os.walk from the directories of stack, next
\* first; the listings that the enumeration orders of the filesystem allow
RECURSIVE populate_directory(_)
populate_directory(stack) ==
    IF stack = <<>> THEN {<<>>}
    ELSE LET dirpath == Head(stack)
             dirnames == SortNames(DirNames(dirpath))
             music(filenames) ==
                 LET names == SelectSeq(filenames, LAMBDA n : Ext(n) \in audio_ext)
                 IN IF ~Contains(dirpath, "/.")
                    THEN [i \in 1..Len(names) |-> AbsPath(OsPathJoin(dirpath, names[i]))]
                    ELSE <<>>
             below == populate_directory(
                          [i \in 1..Len(dirnames) |-> OsPathJoin(dirpath, dirnames[i])]
                              \o Tail(stack))
         IN {music(filenames) \o rest :
                filenames \in SortedListings(FileNames(dirpath)), rest \in below}

\* Playlist.construct: the payload of a playlist with these listtracks
PlaylistConstruct(listtracks, dbid, listtype) ==
    LET position(i) == Index(tracks, ipod_to_path(listtracks[i])) - 1
        found == SelectSeq([i \in 1..Len(listtracks) |-> i], LAMBDA i : position(i) > -1)
        chunks == [k \in 1..Len(found) |-> PackI(position(found[k]))]
    IN [kind |-> "shpl",
        len |-> ConstructLen(PlaylistStruct, NoValues) + BytesLen(chunks),
        total_length |-> 44 + (4 * Len(listtracks)),
        number_of_songs |-> Len(found),
        number_of_nonaudio |-> Len(found),
        dbid |-> dbid,
        listtype |-> listtype,
        indices |-> [k \in 1..Len(chunks) |-> chunks[k].value],
        listtracks |-> listtracks,
        positions |-> [i \in 1..Len(listtracks) |-> position(i)]]

\* what Playlist.construct prints: one report for every entry of listtracks that
\* tracks.index does not find
NotFound(entry) == [msg |-> "Error: Could not find track", about |-> ipod_to_path(entry)]

\* a construct that skips missing entries without a word: the fault
\* C12_MissingEntry must detect
ConstructErrorsSilent(listtracks) == <<>>

ConstructErrors(listtracks) ==
    LET missing == SelectSeq(listtracks, LAMBDA e : Index(tracks, ipod_to_path(e)) = 0)
    IN [k \in 1..Len(missing) |-> NotFound(missing[k])]

\* what PlaylistHeader.construct prints for a playlist it does not keep
SkippingPlaylist == [msg |-> "Error: Playlist does not contain a single track", about |-> ""]

\* the lines a playlist file of the device may hold
M3uLines == {"#EXTM3U", OsPathJoin(path, "a.mp3"), "a.mp3", "nosuch.mp3"}

RECURSIVE SeqsUpTo(_, _)
SeqsUpTo(S, n) ==
    IF n = 0 THEN {<<>>}
    ELSE LET T == SeqsUpTo(S, n - 1) IN T \cup {Append(t, x) : t \in T, x \in S}

\* a master playlist left with the ordinary list type: the fault C7_Master must
\* detect
set_master_ordinary(ts) == [dbid |-> ZeroDbid, listtype |-> 2, listtracks |-> ts]

\* Playlist.set_master: the fields of the master playlist
set_master(ts) ==
    [dbid |-> IF config.playlist_voiceover /\ config.valid_tts
              THEN Md5Dbid("masterlist") ELSE ZeroDbid,
     listtype |-> 1,
     listtracks |-> ts]

\* the end of TrackHeader.construct, then PlaylistHeader.construct up to its loop:
\* the master playlist
ConstructMaster ==
    /\ pc = "tracks"
    /\ Len(out.track_chunk) = Len(tracks)
    /\ \E outcome \in TtsChoices(TRUE) :
         LET track_header == out.track_output \o out.track_chunk
             masterlist == set_master(tracks)
             speech == IF masterlist.dbid = ZeroDbid
                       THEN [files |-> fsFiles, calls |-> <<>>, raised |-> FALSE,
                             result |-> FALSE]
                       ELSE text_to_speech("All songs", masterlist.dbid, TRUE, outcome)
         IN /\ fsFiles' = speech.files
            /\ ttsCalls' = ttsCalls \o speech.calls
            /\ IF speech.raised
               THEN /\ pc' = "exit"
                    /\ stdout' = Append(stdout, IoError)
                    /\ UNCHANGED out
               ELSE /\ out' = [out EXCEPT
                          !.play_base_offset = 64 + BytesLen(track_header),
                          !.chunks = <<PlaylistConstruct(masterlist.listtracks,
                                                         masterlist.dbid,
                                                         masterlist.listtype)>>,
                          !.playlistcount = 1,
                          !.nextlist = 1]
                    /\ stdout' = stdout \o ConstructErrors(masterlist.listtracks)
                    /\ pc' = "playlists"
    /\ UNCHANGED <<path, cwd, uniVars, scans, codecVars, fsDirs, fsTags, config, walk, tracks,
                   albums, artists, lists, sdfile>>

\* a header that keeps every playlist: the fault C3_EmptyDropped must detect
KeepsEveryPlaylist(construction) == TRUE

\* the test of PlaylistHeader.construct that keeps a constructed playlist
KeepsPlaylist(construction) == construction.number_of_songs > 0

\* a kept playlist put right after the master instead of last: the fault
\* C14_EmissionOrder must detect
AddChunkAfterMaster(chunks, construction) ==
    <<Head(chunks), construction>> \o Tail(chunks)

\* chunks += [construction]
AddChunk(chunks, construction) == chunks \o <<construction>>

\* the lines a .pls file may hold
PlsLines ==
    {"[playlist]", "File2=" \o OsPathJoin(path, "a.mp3"),
     "File1=file://" \o OsPathJoin(path, "B%2Emp3"), "FileName=x"}

\* Playlist.populate up to the voiceover: whether it raised, the listtracks, the
\* display text and the lines read, for every content the playlist file may have
Populate(obj) ==
    LET extension == Ext(obj.text)
        text == SplitExt(Basename(obj.text))[1]
        absolute(listtracks) ==
            [k \in 1..Len(listtracks) |-> remove_relatives(listtracks[k], obj.text)]
    IN IF obj.tuple
       THEN {[raised |-> FALSE, listtracks |-> obj.listtracks, text |-> obj.text,
              data |-> <<>>]}
       ELSE IF IsDir(obj.text)
       THEN {[raised |-> FALSE, listtracks |-> listing, text |-> text, data |-> <<>>] :
                listing \in populate_directory(<<obj.text>>)}
       ELSE IF extension = ".pls"
       THEN {[raised |-> populate_pls(data).raised,
              listtracks |-> absolute(populate_pls(data).listtracks),
              text |-> text, data |-> data] : data \in SeqsUpTo(PlsLines, MaxLines)}
       ELSE IF extension = ".m3u"
       THEN {[raised |-> FALSE, listtracks |-> absolute(populate_m3u(data)),
              text |-> text, data |-> data] : data \in SeqsUpTo(M3uLines, MaxLines)}
       ELSE {[raised |-> TRUE, listtracks |-> <<>>, text |-> text, data |-> <<>>]}

\* one iteration of the loop of PlaylistHeader.construct: Playlist.populate of
\* the next source with its voiceover, then Playlist.construct
ConstructPlaylist ==
    /\ pc = "playlists"
    /\ out.nextlist <= Len(lists)
    /\ \E populated \in Populate(lists[out.nextlist]), outcome \in TtsChoices(TRUE) :
         LET dbid == Md5Dbid(populated.text)
             speech == text_to_speech(populated.text, dbid, TRUE, outcome)
             construction == PlaylistConstruct(populated.listtracks, dbid, 2)
         IN IF populated.raised
            THEN /\ pc' = "crashed"
                 /\ UNCHANGED <<out, stdout, fsFiles, ttsCalls>>
            ELSE /\ fsFiles' = speech.files
                 /\ ttsCalls' = ttsCalls \o speech.calls
                 /\ IF speech.raised
                    THEN /\ pc' = "exit"
                         /\ stdout' = Append(stdout, IoError)
                         /\ UNCHANGED out
                    ELSE /\ out' = [out EXCEPT
                               !.chunks = IF KeepsPlaylist(construction)
                                          THEN AddChunk(@, construction) ELSE @,
                               !.playlistcount = IF KeepsPlaylist(construction)
                                                 THEN @ + 1 ELSE @,
                               !.constructed = Append(@, construction),
                               !.read = Append(@, populated.data),
                               !.nextlist = @ + 1]
                         /\ stdout' = stdout \o ConstructErrors(populated.listtracks)
                                          \o (IF KeepsPlaylist(construction)
                                              THEN <<>> ELSE <<SkippingPlaylist>>)
                         /\ pc' = "playlists"
    /\ UNCHANGED <<path, cwd, uniVars, scans, codecVars, fsDirs, fsTags, config, walk, tracks,
                   albums, artists, lists, sdfile>>

\* a running total of the length fields of the chunks instead of their lengths:
\* the fault C10_PlaylistOffsets must detect
RECURSIVE LengthFields(_)
LengthFields(chunks) ==
    IF chunks = <<>> THEN 0 ELSE Head(chunks).total_length + LengthFields(Tail(chunks))

PlaylistOffsetsByField(start, chunks) ==
    [i \in 1..Len(chunks) |-> PackI(start + LengthFields(SubSeq(chunks, 1, i - 1)))]

\* the offset table of PlaylistHeader.construct: one entry per chunk, a running
\* total of the chunks' lengths from the end of the table
PlaylistOffsets(start, chunks) ==
    [i \in 1..Len(chunks) |-> PackI(start + BytesLen(SubSeq(chunks, 1, i - 1)))]

\* the end of PlaylistHeader.construct: the playlist table
PlaylistTable(base_offset, playlistcount, chunks) ==
    LET number_of_playlists == playlistcount
        total_length == 20 + (number_of_playlists * 4)
    IN << [kind |-> "shph",
           len |-> ConstructLen(PlaylistHeaderStruct, NoValues),
           total_length |-> total_length,
           number_of_playlists |-> number_of_playlists] >>
       \o PlaylistOffsets(base_offset + total_length, chunks)
       \o chunks

\* a header whose counts are left at the defaults of the struct: the fault
\* C8_HeaderCounts must detect
TunesSDHeaderDefaults(track_header, play_header, play_base_offset) ==
    [kind |-> "shdb",
     len |-> ConstructLen(TunesSDStruct, NoValues),
     total_number_of_tracks |-> 0,
     total_number_of_playlists |-> 0,
     total_tracks_without_podcasts |-> 0,
     track_header_offset |-> 64,
     playlist_header_offset |-> play_base_offset]

\* the end of TunesSD.construct: the database header
TunesSDHeader(track_header, play_header, play_base_offset) ==
    [kind |-> "shdb",
     len |-> ConstructLen(TunesSDStruct, NoValues),
     total_number_of_tracks |-> track_header[1].number_of_tracks,
     total_number_of_playlists |-> play_header[1].number_of_playlists,
     total_tracks_without_podcasts |-> track_header[1].number_of_tracks,
     track_header_offset |-> 64,
     playlist_header_offset |-> play_base_offset]

\* the end of PlaylistHeader.construct and of TunesSD.construct, and f.write
FinishDatabase ==
    /\ pc = "playlists"
    /\ out.nextlist > Len(lists)
    /\ LET track_header == out.track_output \o out.track_chunk
           play_header == PlaylistTable(out.play_base_offset, out.playlistcount, out.chunks)
           output == TunesSDHeader(track_header, play_header, out.play_base_offset)
       IN sdfile' = <<output>> \o track_header \o play_header
    /\ pc' = "done"
    /\ UNCHANGED <<path, cwd, uniVars, scans, ioVars, codecVars, fsVars, config, walk, tracks,
                   albums, artists, lists, out>>

-----------------------------------------------------------------------------
(* A run of the program: initialize, populate, write_database *)

IdleCodec == filename = "" /\ raised = FALSE /\ ipodname = "" /\ hostpath = ""

NoConfig ==
    [auto_dir_playlists |-> None, auto_id3_playlists |-> None, mutagen |-> FALSE,
     rename |-> FALSE, track_voiceover |-> FALSE, playlist_voiceover |-> FALSE,
     valid_tts |-> FALSE]

EmptyOut ==
    [track_output |-> <<>>, track_chunk |-> <<>>, play_base_offset |-> 0,
     chunks |-> <<>>, playlistcount |-> 0, constructed |-> <<>>, read |-> <<>>,
     nextlist |-> 0]

PreviousFile == << [kind |-> "previous", len |-> 64] >>

IdleUnicode == pass = 0 /\ renamed = {}

IdleIo == stdout = <<>> /\ ttsCalls = <<>>

IdleRuns == scans = <<>>

IdleFs == fsFiles = {} /\ fsDirs = {} /\ fsTags = <<>>

IdleDb ==
    /\ config = NoConfig
    /\ walk = <<>>
    /\ tracks = <<>> /\ albums = <<>> /\ artists = <<>> /\ lists = <<>>
    /\ sdfile = <<>>
    /\ out = EmptyOut

\* the files a device may hold, relative to its root
CandidateFiles ==
    {"a.mp3", "B.mp3", "p.m3u",
     "iPod_Control/Music/d/c.mp3", "iPod_Control/Music/d/e/f.m4a"}

\* the empty directories it may hold
CandidateDirs == {"iPod_Control/Music/z"}

\* the options of a run: none; directory playlists; metadata-template playlists,
\* with mutagen and without it
Configs ==
    { NoConfig,
      [NoConfig EXCEPT !.auto_dir_playlists = <<-1>>, !.mutagen = TRUE],
      [NoConfig EXCEPT !.auto_id3_playlists = <<"{artist}">>, !.mutagen = TRUE],
      [NoConfig EXCEPT !.auto_id3_playlists = <<"{artist}">>] }

\* the state after Shuffler.__init__ on a device mounted at root that holds some
\* of the files and of the empty directories given, with one of the options
\* given, in a process whose working directory is dir
InitAt(root, dir, files, dirs, options) ==
    /\ pc = "initialize"
    /\ path = root
    /\ cwd = dir
    /\ IdleCodec
    /\ \E F \in SUBSET files, D \in SUBSET dirs :
         /\ Cardinality(F) + Cardinality(D) <= MaxFiles
         /\ fsFiles = {OsPathJoin(path, f) : f \in F}
         /\ fsDirs = UNION {Ancestors(Dirname(OsPathJoin(path, f))) : f \in F}
                       \cup UNION {Ancestors(OsPathJoin(path, d)) : d \in D}
                       \cup Ancestors(path)
    /\ fsTags = <<>>
    /\ config \in options
    /\ walk = <<path>>
    /\ tracks = <<>> /\ albums = <<>> /\ artists = <<>> /\ lists = <<>>
    /\ sdfile = PreviousFile
    /\ out = EmptyOut
    /\ IdleUnicode
    /\ IdleRuns
    /\ IdleIo

InitWith(files, dirs, options) == InitAt("/ipod", "/", files, dirs, options)

Init == InitWith(CandidateFiles, CandidateDirs, Configs)

Next ==
    \/ Initialize
    \/ PopulateWalk
    \/ PopulateId3
    \/ WriteDatabaseOpen
    \/ ConstructTrack
    \/ ConstructMaster
    \/ ConstructPlaylist
    \/ FinishDatabase

Spec == Init /\ [][Next]_vars

RECURSIVE Repeat(_, _)
Repeat(s, n) ==
    IF n = 0 THEN ""
    ELSE IF n % 2 = 1 THEN s \o Repeat(s, n - 1)
    ELSE LET half == Repeat(s, n \div 2) IN half \o half

\* a file name that makes the device path longer than the 256 bytes of its field
LongName == Repeat("f", LongStem) \o ".m4a"

LongCandidateFiles ==
    {"a.mp3", "p.m3u", "iPod_Control/Music/d/" \o LongName, "iPod_Control/Music/d/g.mp3"}

\* the same program on devices that may hold a file with a long name
InitLong == InitWith(LongCandidateFiles, {}, Configs)

SpecLong == InitLong /\ [][Next]_vars

-----------------------------------------------------------------------------
(* The path codec applied to bounded inputs *)

PathAlphabet == {"/", "i", "2", "a"}

RECURSIVE Strings(_, _)
Strings(alphabet, n) ==
    IF n = 0 THEN {""}
    ELSE LET S == Strings(alphabet, n - 1) IN S \cup {s \o c : s \in S, c \in alphabet}

DeviceRoots == {"/i", "/i/a", "/"}

WorkingDirs == {"/", "/i"}

InitPath ==
    /\ pc = "path_to_ipod"
    /\ path \in DeviceRoots
    /\ cwd \in WorkingDirs
    /\ filename \in Strings(PathAlphabet, MaxPathLen) \ {""}
    /\ raised = FALSE
    /\ ipodname = ""
    /\ hostpath = ""
    /\ IdleFs
    /\ IdleDb
    /\ IdleUnicode
    /\ IdleRuns
    /\ IdleIo

CallPathToIpod ==
    /\ pc = "path_to_ipod"
    /\ LET r == path_to_ipod(filename) IN
        /\ raised' = r.raised
        /\ ipodname' = r.name
        /\ pc' = IF r.raised THEN "path_error" ELSE "ipod_to_path"
    /\ UNCHANGED <<path, cwd, uniVars, scans, ioVars, filename, hostpath, fsVars, dbVars>>

CallIpodToPath ==
    /\ pc = "ipod_to_path"
    /\ hostpath' = ipod_to_path(ipodname)
    /\ pc' = "path_done"
    /\ UNCHANGED <<path, cwd, uniVars, scans, ioVars, filename, raised, ipodname, fsVars, dbVars>>

NextPath == CallPathToIpod \/ CallIpodToPath

SpecPath == InitPath /\ [][NextPath]_vars

-----------------------------------------------------------------------------
(* The unicode sanitizer on its own: check_unicode run twice over a device *)

\* the entries a device may hold, "^" standing for a character outside latin-1
UnicodeFiles ==
    {"f.mp3", "^.MP3", "^.txt", "^d/n.txt", "^d/g.mp3", "^d/^.m3u", "d/^e/h.mp3"}

UnicodeDirs == {"^z"}

\* the state when cli.main calls check_unicode on a device mounted at root
InitUnicodeAt(root) ==
    /\ pc = "check_unicode"
    /\ path = root
    /\ cwd = "/"
    /\ IdleCodec
    /\ \E F \in SUBSET UnicodeFiles, D \in SUBSET UnicodeDirs :
         /\ Cardinality(F) + Cardinality(D) <= MaxFiles
         /\ fsFiles = {OsPathJoin(path, f) : f \in F}
         /\ fsDirs = UNION {Ancestors(Dirname(OsPathJoin(path, f))) : f \in F}
                       \cup UNION {Ancestors(OsPathJoin(path, d)) : d \in D}
                       \cup Ancestors(path)
    /\ fsTags = <<>>
    /\ config = [NoConfig EXCEPT !.rename = TRUE]
    /\ walk = <<>>
    /\ tracks = <<>> /\ albums = <<>> /\ artists = <<>> /\ lists = <<>>
    /\ sdfile = PreviousFile
    /\ out = EmptyOut
    /\ IdleUnicode
    /\ IdleRuns
    /\ IdleIo

InitUnicode == InitUnicodeAt("/ipod")

NextUnicode == CheckUnicode

SpecUnicode == InitUnicode /\ [][NextUnicode]_vars

\* a device with playlists of the same name and a voiceover requested with a
\* program found for it
VoiceFiles == {"a.mp3", "p.m3u", "iPod_Control/Music/d/p.m3u"}

VoiceConfigs ==
    { [NoConfig EXCEPT !.playlist_voiceover = TRUE, !.valid_tts = TRUE],
      [NoConfig EXCEPT !.track_voiceover = TRUE, !.valid_tts = TRUE],
      [NoConfig EXCEPT !.track_voiceover = TRUE, !.playlist_voiceover = TRUE,
                       !.valid_tts = TRUE] }

InitVoice == InitWith(VoiceFiles, {}, VoiceConfigs)

SpecVoice == InitVoice /\ [][Next]_vars

\* a device with playlist files of both formats
ListFiles == {"a.mp3", "B.mp3", "q.pls", "p.m3u"}

ListConfigs == {NoConfig, [NoConfig EXCEPT !.rename = TRUE]}

InitLists == InitWith(ListFiles, {}, ListConfigs)

SpecLists == InitLists /\ [][Next]_vars

\* a device with hidden files, hidden directories and files in the speech-clip
\* subtree
ScanFiles ==
    {"a.mp3", "p.m3u", ".h.mp3", ".d/b.mp3", "iPod_Control/Music/.e/x.pls",
     "iPod_Control/Speakable/s.m3u", "iPod_Control/Speakable/Tracks/t.mp3"}

ScanConfigs ==
    { NoConfig,
      [NoConfig EXCEPT !.auto_dir_playlists = <<-1>>, !.mutagen = TRUE],
      [NoConfig EXCEPT !.auto_id3_playlists = <<"{artist}">>] }

InitScan == InitWith(ScanFiles, {}, ScanConfigs)

SpecScan == InitScan /\ [][Next]_vars

\* a device with nested music directories, a hidden one, and a copy of a music
\* tree kept in another directory; directory playlists unset, unlimited, or
\* limited to depth 0, 1 or 2
DirFiles ==
    {"iPod_Control/Music/c.mp3", "iPod_Control/Music/d/e/f.mp3",
     "iPod_Control/Music/.e/x.mp3", "x/iPod_Control/Music/y/g.mp3"}

DirDirs == {"iPod_Control/Music/z"}

DirConfigs ==
    {NoConfig} \cup {[NoConfig EXCEPT !.auto_dir_playlists = <<n>>] : n \in {-1, 0, 1, 2}}

InitDirs == InitWith(DirFiles, DirDirs, DirConfigs)

SpecDirs == InitDirs /\ [][Next]_vars

\* a device whose tracks are grouped by a metadata template
Id3Files == {"a.mp3", "B.mp3", "iPod_Control/Music/d/c.mp3"}

Id3Configs ==
    {[NoConfig EXCEPT !.auto_id3_playlists = <<t>>, !.mutagen = TRUE] :
        t \in {"{album}", "{artist}", "{artist} - {album}"}}

InitId3 == InitWith(Id3Files, {}, Id3Configs)

SpecId3 == InitId3 /\ [][Next]_vars

\* a device with a playlist in a music directory, a track next to it and a track
\* of the same name in the root, run from /, from the device root or from the
\* directory of the playlist
M3uFiles == {"a.mp3", "iPod_Control/Music/d/a.mp3", "iPod_Control/Music/d/p.m3u"}

M3uWorkingDirs == {"/", "/ipod", "/ipod/iPod_Control/Music/d"}

InitM3u == \E dir \in M3uWorkingDirs : InitAt("/ipod", dir, M3uFiles, {}, {NoConfig})

SpecM3u == InitM3u /\ [][Next]_vars

\* the same devices mounted below a directory whose name is outside latin-1
InitMount == InitUnicodeAt("/^m/ipod")

SpecMount == InitMount /\ [][NextUnicode]_vars

\* how many runs over one device are compared
MaxRuns == 2

\* the program is run again on the device as the run before has left it:
\* Shuffler.__init__ starts from empty tracks and lists
Rescan ==
    /\ pc = "populate"
    /\ walk = <<>>
    /\ Len(scans) < MaxRuns - 1
    /\ scans' = Append(scans, tracks)
    /\ tracks' = <<>>
    /\ lists' = <<>>
    /\ walk' = <<path>>
    /\ pc' = "initialize"
    /\ UNCHANGED <<path, cwd, uniVars, ioVars, codecVars, fsVars, config, albums, artists,
                   sdfile, out>>

\* a device with names that differ in letter case only
CaseFiles == {"A.mp3", "a.mp3", "b.mp3", "d/C.mp3", "d/c.mp3"}

InitRuns == InitWith(CaseFiles, {}, {NoConfig})

NextRuns == Initialize \/ PopulateWalk \/ Rescan

SpecRuns == InitRuns /\ [][NextRuns]_vars

\* the same device mounted at /ipod or below a directory whose name starts with
\* a dot
MountPoints == {"/ipod", "/.m/ipod"}

RootFiles == {"a.mp3", "p.m3u", "iPod_Control/Music/d/c.mp3", ".h.mp3"}

InitRoots == \E root \in MountPoints : InitAt(root, "/", RootFiles, {}, {NoConfig})

SpecRoots == InitRoots /\ [][Next]_vars

-----------------------------------------------------------------------------
(* The path codec: containment and round trip *)

\* p lies within root: equal to it, or beginning with root + separator
Within(p, root) ==
    \/ p = root
    \/ StartsWith(p, IF EndsWith(root, SEP) THEN root ELSE root \o SEP)

StrictlyUnder(p, root) == Within(p, root) /\ p # root

\* C4: for every path strictly under the device root the round trip
\* ipod_to_path(path_to_ipod(p)) gives back p.
C4_RoundTrip ==
    (pc = "path_done" /\ filename = AbsPath(filename) /\ StrictlyUnder(filename, path))
        => hostpath = filename

\* C5: path_to_ipod raises for every path that is not within the device root
\* (neither the root nor root + separator + ...), and yields no device path.
C5_OutsideRejected ==
    (pc # "path_to_ipod" /\ ~Within(AbsPath(filename), path))
        => (raised /\ pc = "path_error")

-----------------------------------------------------------------------------
(* The database file: its regions, as sequences of segments of sdfile *)

\* the positions of sdfile that hold a segment of this kind, ascending
Ascending(S) ==
    [k \in 1..Cardinality(S) |-> CHOOSE i \in S : Cardinality({j \in S : j < i}) = k - 1]

SegmentsAt(kind, from, to) ==
    Ascending({i \in DOMAIN sdfile : from <= i /\ i <= to /\ sdfile[i].kind = kind})

\* the absolute byte position at which segment i of sdfile begins
Pos(i) == BytesLen(SubSeq(sdfile, 1, i - 1))

Written == pc = "done"

TrackTableAt == CHOOSE i \in DOMAIN sdfile : sdfile[i].kind = "shth"

PlaylistTableAt == CHOOSE i \in DOMAIN sdfile : sdfile[i].kind = "shph"

TrackOffsetsAt == SegmentsAt("I", TrackTableAt, PlaylistTableAt)

TrackRecordsAt == SegmentsAt("shtr", 1, Len(sdfile))

PlaylistOffsetsAt == SegmentsAt("I", PlaylistTableAt, Len(sdfile))

PayloadsAt == SegmentsAt("shpl", 1, Len(sdfile))

TrackRecords == [k \in 1..Len(TrackRecordsAt) |-> sdfile[TrackRecordsAt[k]]]

Payloads == [k \in 1..Len(PayloadsAt) |-> sdfile[PayloadsAt[k]]]

-----------------------------------------------------------------------------
(* Track order and indices *)

\* the audio files of the device
AudioFiles == {f \in fsFiles : Ext(f) \in audio_ext}

\* the first component of p below the directory d
ChildOf(d, p) == Head(Split(Slice(p, Len(d) + 1), SEP))

\* the deepest directory that holds both p and q
CommonDir(p, q) ==
    LET C == Ancestors(Dirname(p)) \cap Ancestors(Dirname(q))
    IN CHOOSE d \in C : \A e \in C : Len(e) <= Len(d)

\* p may be discovered before q by a top-down walk that lists the files of a
\* directory in case-insensitive name order, then its subdirectories sorted
WalkBefore(p, q) ==
    LET d == CommonDir(p, q)
    IN IF Dirname(p) = d /\ Dirname(q) = d
       THEN StrLeq(Lower(Basename(p)), Lower(Basename(q)))
       ELSE IF Dirname(p) = d THEN TRUE
       ELSE IF Dirname(q) = d THEN FALSE
       ELSE StrLess(ChildOf(d, p), ChildOf(d, q))

\* the entry names the file: it is the file's absolute host path
Names(entry, file) == AbsPath(entry) = file

-----------------------------------------------------------------------------
(* The artist and album tables *)

\* the tracks whose record carries the IDs of their tags
Tagged == {k \in 1..Len(out.track_chunk) : out.track_chunk[k].tagged}

ArtistOf(k) == TagValue(fsTags[tracks[k]].tags, "artist", "Unknown")

AlbumOf(k) == TagValue(fsTags[tracks[k]].tags, "album", "Unknown")

\* the 0-based order of first appearance of the name of track k
FirstAppearance(nameOf(_), k) ==
    LET first == Min({j \in Tagged : nameOf(j) = nameOf(k)})
    IN Cardinality({nameOf(j) : j \in {i \in Tagged : i < first}})

\* the table maps names to IDs bijectively, in order of first appearance
Bijective(table, nameOf(_), idOf(_)) ==
    /\ \A k, l \in Tagged : (nameOf(k) = nameOf(l)) <=> (idOf(k) = idOf(l))
    /\ \A k \in Tagged : idOf(k) = FirstAppearance(nameOf, k)
    /\ \A k \in Tagged : table[idOf(k) + 1] = nameOf(k)
    /\ Len(table) = Cardinality({nameOf(k) : k \in Tagged})
    /\ \A a, b \in 1..Len(table) : table[a] = table[b] => a = b

\* C2: after any sequence of Track.populate calls the artist table and the album
\* table map names to IDs bijectively: a name seen before has the ID it was first
\* given, its 0-based order of first appearance, a new name gets the next unused
\* ID, and no two distinct names share an ID.
C2_DedupTables ==
    /\ Bijective(artists, ArtistOf, LAMBDA k : out.track_chunk[k].artistid)
    /\ Bijective(albums, AlbumOf, LAMBDA k : out.track_chunk[k].albumid)

\* three tagged tracks, the third with the artist and album of the first
C2_Witness ==
    /\ Tagged = {1, 2, 3}
    /\ ArtistOf(1) = ArtistOf(3) /\ ArtistOf(1) # ArtistOf(2)
    /\ AlbumOf(1) = AlbumOf(3) /\ AlbumOf(1) # AlbumOf(2)

-----------------------------------------------------------------------------
(* The playlist table *)

\* some entry of the constructed playlist resolved against the track list
Resolved(construction) ==
    \E k \in 1..Len(construction.positions) : construction.positions[k] > -1

\* C3: a playlist whose every entry fails to resolve against the track list
\* contributes no payload and no offset, and number_of_playlists is 1 (master)
\* plus the number of playlists with a resolved track, which is also the number
\* of offsets and the number of payloads emitted.
C3_EmptyDropped ==
    Written =>
        /\ Len(out.constructed) = Len(lists)
        /\ Tail(Payloads) = SelectSeq(out.constructed, Resolved)
        /\ sdfile[PlaylistTableAt].number_of_playlists
               = 1 + Cardinality({i \in 1..Len(out.constructed) : Resolved(out.constructed[i])})
        /\ sdfile[PlaylistTableAt].number_of_playlists = Len(PlaylistOffsetsAt)
        /\ sdfile[PlaylistTableAt].number_of_playlists = Len(Payloads)

\* a playlist with entries, none of them resolved, next to one that is kept
C3_Witness ==
    /\ Written
    /\ \E i \in 1..Len(out.constructed) :
         out.constructed[i].listtracks # <<>> /\ ~Resolved(out.constructed[i])
    /\ \E i \in 1..Len(out.constructed) : Resolved(out.constructed[i])

\* C7: exactly one payload of the written database has list type 1, it is the
\* first payload of the playlist table and its indices are 0, 1, ..., n-1 for the
\* n tracks of the database; every other payload has list type 2.
C7_Master ==
    Written =>
        /\ Payloads # <<>>
        /\ Payloads[1].listtype = 1
        /\ Payloads[1].indices = [k \in 1..Len(TrackRecords) |-> k - 1]
        /\ \A p \in 2..Len(Payloads) : Payloads[p].listtype = 2
        /\ Cardinality({p \in 1..Len(Payloads) : Payloads[p].listtype = 1}) = 1

\* a database of three tracks and two more playlists
C7_Witness == Written /\ Len(TrackRecords) = 3 /\ Len(Payloads) = 3

\* C8: the database header carries total-tracks and tracks-without-podcasts equal
\* to the number of track records, and total-playlists equal to the playlist
\* count of the playlist table; for a tree without audio files they are 0, 0 and
\* 1, and the song count of the master payload is 0.
C8_HeaderCounts ==
    Written =>
        /\ sdfile[1].kind = "shdb"
        /\ sdfile[1].total_number_of_tracks = Len(TrackRecords)
        /\ sdfile[1].total_tracks_without_podcasts = Len(TrackRecords)
        /\ sdfile[1].total_number_of_playlists = sdfile[PlaylistTableAt].number_of_playlists
        /\ sdfile[1].total_number_of_playlists = Len(Payloads)
        /\ AudioFiles = {} =>
             /\ sdfile[1].total_number_of_tracks = 0
             /\ sdfile[1].total_tracks_without_podcasts = 0
             /\ sdfile[1].total_number_of_playlists = 1
             /\ Payloads[1].number_of_songs = 0

\* the database of a device that holds no file at all
C8_Witness == Written /\ fsFiles = {} /\ Len(Payloads) = 1

-----------------------------------------------------------------------------
(* Offsets *)

\* C9: the k-th entry of the track offset table is the absolute byte position at
\* which the k-th track record begins, 64 + 20 + 4n + 372k for n tracks: every
\* record is 372 bytes, also when its device path is longer than 256 bytes, and
\* the records follow the offset table without a gap.
C9_TrackOffsets ==
    Written =>
        LET n == Len(TrackRecordsAt) IN
        /\ Len(TrackOffsetsAt) = n
        /\ Pos(TrackTableAt) = 64
        /\ \A k \in 1..n :
             /\ sdfile[TrackOffsetsAt[k]].value = Pos(TrackRecordsAt[k])
             /\ Pos(TrackRecordsAt[k]) = 64 + 20 + 4 * n + 372 * (k - 1)
             /\ sdfile[TrackRecordsAt[k]].len = 372
             /\ TrackOffsetsAt[k] = TrackTableAt + k
             /\ TrackRecordsAt[k] = TrackTableAt + n + k

\* a record whose device path is longer than its field, followed by another
C9_Witness ==
    /\ Written
    /\ \E k \in 1..Len(tracks) - 1 : Len(path_to_ipod(tracks[k]).name) > 256

\* C10: the playlist-table offset of the header is the absolute byte position at
\* which the playlist table begins, 64 + the byte length of the track table, and
\* the j-th entry of the playlist offset table is the absolute byte position at
\* which the j-th emitted payload begins, whatever playlists were dropped and
\* whatever entries were left unresolved.
C10_PlaylistOffsets ==
    Written =>
        /\ sdfile[1].playlist_header_offset = Pos(PlaylistTableAt)
        /\ sdfile[1].playlist_header_offset
               = 64 + BytesLen(SubSeq(sdfile, TrackTableAt, PlaylistTableAt - 1))
        /\ Len(PlaylistOffsetsAt) = Len(PayloadsAt)
        /\ \A j \in 1..Len(PayloadsAt) :
             /\ sdfile[PlaylistOffsetsAt[j]].value = Pos(PayloadsAt[j])
             /\ PlaylistOffsetsAt[j] = PlaylistTableAt + j
             /\ PayloadsAt[j] = PlaylistTableAt + Len(PayloadsAt) + j

\* a kept playlist with an unresolved entry, and a payload after it
C10_Witness ==
    /\ Written
    /\ \E j \in 2..Len(Payloads) - 1 :
         \E k \in 1..Len(Payloads[j].positions) : Payloads[j].positions[k] = -1

-----------------------------------------------------------------------------
(* The unicode sanitizer *)

\* C6: check_unicode is idempotent: for every tree and every enumeration order
\* of its directories, a second run on the tree a first run has left performs
\* no rename.
C6_Idempotent == pass = 2 => renamed = {}

-----------------------------------------------------------------------------
(* The fields of a playlist payload *)

\* C11: the length field of every emitted playlist payload is the byte length
\* of the payload, 44 + 4 * (number of resolved tracks), and its non-audio count
\* equals its song count, also when entries of the source failed to resolve.
C11_LengthField ==
    Written =>
        \A p \in 1..Len(Payloads) :
            /\ Payloads[p].total_length = Payloads[p].len
            /\ Payloads[p].len = 44 + 4 * Payloads[p].number_of_songs
            /\ Payloads[p].number_of_songs = Len(Payloads[p].indices)
            /\ Payloads[p].number_of_nonaudio = Payloads[p].number_of_songs

\* the sources of Shuffler.lists that are .m3u files
M3uSources == {i \in 1..Len(lists) : ~lists[i].tuple /\ Ext(lists[i].text) = ".m3u"}

\* the entries of a constructed playlist that name a scanned track, in order
ValidEntries(construction) ==
    SelectSeq(construction.listtracks,
              LAMBDA e : \E j \in 1..Len(tracks) : Names(e, tracks[j]))

MissingEntries(construction) ==
    SelectSeq(construction.listtracks,
              LAMBDA e : \A j \in 1..Len(tracks) : ~Names(e, tracks[j]))

\* how many times the report of a missing entry was printed
Reports(entry) ==
    Cardinality({k \in 1..Len(stdout) :
                    stdout[k] = [msg |-> "Error: Could not find track", about |-> AbsPath(entry)]})

\* how many times the constructed playlists hold the entry
Uses(entry) ==
    Cardinality({ik \in {<<i, k>> : i \in 1..Len(out.constructed), k \in 1..MaxLines + MaxFiles} :
                    /\ ik[2] <= Len(out.constructed[ik[1]].listtracks)
                    /\ out.constructed[ik[1]].listtracks[ik[2]] = entry})

-----------------------------------------------------------------------------
(* Voiceover *)

\* the display text Playlist.populate gives source i
DisplayText(i) ==
    IF lists[i].tuple THEN lists[i].text ELSE SplitExt(Basename(lists[i].text))[1]

\* the calls of a voiceover program made for the playlist clip of a dbid
CallsFor(dbid) == {k \in 1..Len(ttsCalls) : ttsCalls[k].wav = WavPath(dbid, TRUE)}

\* C13: when playlist voiceover is enabled and two playlists of one run have the
\* same display text, both get the same hash and the voiceover program is
\* invoked at most once for that hash, whatever the first call did
C13_SynthesisOnce ==
    config.playlist_voiceover =>
      \A i, j \in 1..Len(out.constructed) :
         (i < j /\ DisplayText(i) = DisplayText(j)) =>
            /\ out.constructed[i].dbid = out.constructed[j].dbid
            /\ Cardinality(CallsFor(out.constructed[i].dbid)) <= 1

-----------------------------------------------------------------------------
(* Emission order *)

\* the sources whose playlist resolved a track, in the order of the collection
KeptSources ==
    SelectSeq([i \in 1..Len(out.constructed) |-> i],
              LAMBDA i : out.constructed[i].number_of_songs > 0)

\* C14: the payloads of the file are the master playlist first, then one payload
\* for every source that resolved a track, in the order of the source
\* collection; a source between them that resolved nothing changes neither
\* their order nor their contents
C14_EmissionOrder ==
    Written =>
      /\ Payloads[1].listtype = 1
      /\ Len(Payloads) = 1 + Len(KeptSources)
      /\ \A k \in 1..Len(KeptSources) :
           /\ Payloads[k + 1].listtype = 2
           /\ Payloads[k + 1].dbid = Md5Dbid(DisplayText(KeptSources[k]))
           /\ Payloads[k + 1].indices = out.constructed[KeptSources[k]].indices
           /\ Payloads[k + 1].listtracks = out.constructed[KeptSources[k]].listtracks

C14_Witness ==
    /\ Written
    /\ Len(KeptSources) >= 2
    /\ Payloads[2].dbid # Payloads[3].dbid
    /\ \E i \in 1..Len(out.constructed) :
         i < KeptSources[Len(KeptSources)] /\ out.constructed[i].number_of_songs = 0

-----------------------------------------------------------------------------
(* Playlist files *)

\* the run ended with an exception raised while Playlist.populate read a .pls
\* file
PlsCrash ==
    /\ pc = "crashed"
    /\ out.nextlist \in 1..Len(lists)
    /\ Ext(lists[out.nextlist].text) = ".pls"

\* C15: a malformed line of a playlist file (a .pls line such as FileName=x) is
\* reported and skipped, the rest of the playlist is processed and the database
\* is still produced: reading a .pls file never ends the run
C15_MalformedLine == ~PlsCrash

-----------------------------------------------------------------------------
(* Metadata failures *)

\* the run ended with an exception raised while the tracks were grouped, after
\* mutagen gave no result for a track
GroupingCrash ==
    /\ pc = "crashed"
    /\ config.auto_id3_playlists # None
    /\ out = EmptyOut
    /\ \E f \in DOMAIN fsTags : fsTags[f].kind = "none"

\* C16: a metadata read that raises or gives no result never ends the run: the
\* track is emitted with default metadata, and when tracks are grouped the file
\* is left out and the others are still grouped
C16_MetadataFailure ==
    /\ ~GroupingCrash
    /\ \A k \in 1..Len(out.track_chunk) :
         (tracks[k] \in DOMAIN fsTags /\ fsTags[tracks[k]].kind # "tags") =>
            /\ out.track_chunk[k].artistid = 0
            /\ out.track_chunk[k].albumid = 0
            /\ out.track_chunk[k].dbid = Md5Dbid(SplitExt(Basename(tracks[k]))[1])

-----------------------------------------------------------------------------
(* Speech-synthesis failures *)

\* the run ended with the report of write_database right after a call of the
\* voiceover program that left no clip
SynthesisAbort ==
    /\ pc = "exit"
    /\ stdout # <<>> /\ stdout[Len(stdout)] = IoError
    /\ ttsCalls # <<>> /\ ttsCalls[Len(ttsCalls)].wav \notin fsFiles

\* C17: a failure of speech synthesis (the program reports failure or cannot be
\* started) is not fatal: the record is still emitted with its hash and the
\* construction completes
C17_SynthesisFailure == ~SynthesisAbort

-----------------------------------------------------------------------------
(* The database file *)

\* C18: the database file is neither written nor truncated before the whole
\* buffer is constructed, and a run whose construction fails leaves the previous
\* file in place: until the run has written the database the file is the
\* previous one
C18_FileUntouched == pc # "done" => sdfile = PreviousFile

-----------------------------------------------------------------------------
(* Configuration errors *)

\* metadata-template playlists are requested and mutagen is not installed
NoMutagenRun == config.auto_id3_playlists # None /\ ~config.mutagen

\* C19: when metadata-template playlists are requested without mutagen, the run
\* aborts before the device tree is scanned and before the voiceover
\* directories are modified: no step of such a run changes the filesystem, the
\* position of the scan, the track list or the playlist sources
C19_AbortBeforeScan ==
    [][NoMutagenRun => UNCHANGED <<fsFiles, fsDirs, walk, tracks, lists>>]_vars

-----------------------------------------------------------------------------
(* Hidden files and the speech-clip subtree *)

\* the names of the directories between the device root and file f
DirectoriesOf(f) ==
    LET comps == Split(Slice(f, Len(path) + Len(SEP)), SEP)
    IN {comps[k] : k \in 1..Len(comps) - 1}

\* f is a hidden file, lies in or below a hidden directory, or lies in or below
\* iPod_Control/Speakable
Excluded(f) ==
    \/ StartsWith(Basename(f), ".")
    \/ \E d \in DirectoriesOf(f) : StartsWith(d, ".")
    \/ StrictlyUnder(f, OsPathJoin(path, "iPod_Control/Speakable"))

\* C20: Shuffler.populate adds to tracks and to lists no file whose name starts
\* with a dot, no file in or below a directory whose name starts with a dot and
\* no file in or below iPod_Control/Speakable
C20_NothingHidden ==
    /\ \A k \in 1..Len(tracks) : ~Excluded(tracks[k])
    /\ \A i \in 1..Len(lists) :
         IF lists[i].tuple
         THEN \A k \in 1..Len(lists[i].listtracks) : ~Excluded(lists[i].listtracks[k])
         ELSE lists[i].text \in fsFiles => ~Excluded(lists[i].text)

C20_Witness ==
    /\ pc = "populate" /\ walk = <<>>
    /\ tracks # <<>>
    /\ \E f \in fsFiles :
         StartsWith(Basename(f), ".") \/ \E d \in DirectoriesOf(f) : StartsWith(d, ".")
    /\ \E f \in fsFiles : StrictlyUnder(f, OsPathJoin(path, "iPod_Control/Speakable"))

-----------------------------------------------------------------------------
(* Directory playlists *)

MusicRoot == OsPathJoin(path, "iPod_Control/Music")

\* the names of the directories from below root down to directory d
ComponentsBelow(d, root) == Split(Slice(d, Len(root) + Len(SEP)), SEP)

\* the nesting depth of d below the music root: 1 for its direct children
DepthBelowMusic(d) == Len(ComponentsBelow(d, MusicRoot))

\* the directories the depth setting asks a playlist for
DirectoriesWanted ==
    IF config.auto_dir_playlists = None THEN {}
    ELSE {d \in fsDirs :
            /\ StrictlyUnder(d, MusicRoot)
            /\ \A k \in 1..Len(ComponentsBelow(d, path)) :
                  ~StartsWith(ComponentsBelow(d, path)[k], ".")
            /\ \/ config.auto_dir_playlists[1] < 0
               \/ DepthBelowMusic(d) <= config.auto_dir_playlists[1]}

\* the positions of lists at which directory d is a playlist source
SourcesOf(d) == {i \in 1..Len(lists) : ~lists[i].tuple /\ lists[i].text = d}

ScanOver == pc # "initialize" /\ walk = <<>>

\* C21: once the device is scanned the directories that are playlist sources are
\* those the depth setting asks for, each of them once: none when unset or 0,
\* every non-hidden directory strictly below the music root when -1, those of
\* depth at most N when N >= 0, and never the music root
C21_DirectoryPlaylists ==
    ScanOver =>
       \A d \in fsDirs :
          Cardinality(SourcesOf(d)) = IF d \in DirectoriesWanted THEN 1 ELSE 0

-----------------------------------------------------------------------------
(* Metadata-template groups *)

\* the groups Shuffler.populate got from group_tracks_by_id3_template
Groups == SelectSeq(lists, LAMBDA l : l.tuple)

\* the metadata read for file f, empty when the read raised
TagsOf(f) == IF fsTags[f].kind = "tags" THEN fsTags[f].tags ELSE <<>>

Fields == {"artist", "album", "title"}

\* a field the template refers to is non-empty for file f
HasField(f) ==
    \E name \in Fields :
        /\ Contains(config.auto_id3_playlists[1], "{" \o name \o "}")
        /\ TagValue(TagsOf(f), name, "") # ""

\* the template with the fields of file f put in
Rendered(f) ==
    Replace(Replace(Replace(config.auto_id3_playlists[1],
                            "{artist}", TagValue(TagsOf(f), "artist", "")),
                    "{album}", TagValue(TagsOf(f), "album", "")),
            "{title}", TagValue(TagsOf(f), "title", ""))

Members(g) == {g.listtracks[k] : k \in 1..Len(g.listtracks)}

Grouped == pc = "write_database" /\ config.auto_id3_playlists # None

\* C22: the groups returned have distinct names in ascending lexicographic
\* order; a track is in the group of its rendered name iff a field the template
\* refers to is non-empty for it, and in no group otherwise; the members of a
\* group are in track-discovery order
C22_Groups ==
    Grouped =>
      /\ \A i, j \in 1..Len(Groups) : i < j => StrLess(Groups[i].text, Groups[j].text)
      /\ \A i \in 1..Len(Groups) :
           /\ Groups[i].listtracks # <<>>
           /\ \A k \in 1..Len(tracks) :
                tracks[k] \in Members(Groups[i])
                   <=> (HasField(tracks[k]) /\ Rendered(tracks[k]) = Groups[i].text)
           /\ \A a, b \in 1..Len(Groups[i].listtracks) :
                a < b => Index(tracks, Groups[i].listtracks[a])
                            < Index(tracks, Groups[i].listtracks[b])
      /\ \A k \in 1..Len(tracks) :
           HasField(tracks[k]) => \E i \in 1..Len(Groups) : tracks[k] \in Members(Groups[i])

C22_Witness ==
    /\ Grouped
    /\ Len(Groups) >= 2
    /\ tracks[1] \in Members(Groups[2])
    /\ \E k \in 1..Len(tracks) : ~HasField(tracks[k])

-----------------------------------------------------------------------------
(* Format B: .pls playlists *)

PlsSources == {i \in 1..Len(out.constructed) : ~lists[i].tuple /\ Ext(lists[i].text) = ".pls"}

KeyOf(line) == IF Contains(line, "=") THEN SubSeq(line, 1, Find(line, "=") - 1) ELSE line

ValueOf(line) == IF Contains(line, "=") THEN Slice(line, Find(line, "=")) ELSE ""

\* the lines of a .pls file whose key starts with "file"
FileLines(data) == SelectSeq(data, LAMBDA l : StartsWith(Lower(KeyOf(l)), "file"))

\* the number in the key of a FileN line
NumberOf(line) == ParseInt(Slice(KeyOf(line), 4))

\* the path a value stands for: percent-escapes decoded (the values of PlsLines
\* escape the dot only), then a leading file:// removed
PathOf(line) ==
    LET decoded == Replace(ValueOf(line), "%2E", ".")
    IN IF StartsWith(decoded, "file://") THEN Slice(decoded, 7) ELSE decoded

\* C23: the entries of a .pls playlist are the decoded paths of its FileN lines
\* (percent-decoded, a leading file:// removed), one per line, in ascending order
\* of N whatever the order of the lines; other lines give no entry
C23_PlsOrder ==
    \A i \in PlsSources :
       LET files == FileLines(out.read[i])
           listtracks == out.constructed[i].listtracks
       IN /\ Len(listtracks) = Len(files)
          /\ \E p \in Permutations(1..Len(files)) :
               /\ \A k \in 1..Len(files) : listtracks[k] = PathOf(files[p[k]])
               /\ \A k \in 1..Len(files) - 1 :
                    NumberOf(files[p[k]]) <= NumberOf(files[p[k + 1]])

C23_Witness ==
    \E i \in PlsSources :
       /\ Len(out.read[i]) = 2
       /\ FileLines(out.read[i]) = out.read[i]
       /\ NumberOf(out.read[i][1]) > NumberOf(out.read[i][2])
       /\ out.constructed[i].indices = <<1, 0>>

-----------------------------------------------------------------------------
(* Format A: .m3u playlists *)

\* the lines of an .m3u file that are not comments
PathLines(data) == SelectSeq(data, LAMBDA l : ~StartsWith(l, "#"))

\* the path a line of the playlist file stands for: the line itself when it is
\* absolute, else the line taken from the directory of the playlist file
Meant(line, playlist) ==
    IF StartsWith(line, SEP) THEN line ELSE OsPathJoin(Dirname(playlist), line)

\* C24: in an .m3u playlist comment lines give no entry, and every other line
\* is matched against the track list as the literal path when absolute and as
\* the path relative to the directory of the playlist file otherwise
C24_M3uPaths ==
    \A i \in M3uSources : i <= Len(out.constructed) =>
       LET lines == PathLines(out.read[i])
           c == out.constructed[i]
       IN /\ Len(c.listtracks) = Len(lines)
          /\ \A k \in 1..Len(lines) :
               c.positions[k] = Index(tracks, Meant(lines[k], lists[i].text)) - 1

-----------------------------------------------------------------------------
(* The unicode sanitizer: directories *)

\* where the entry renamed to p is once the directories above it are renamed
RECURSIVE Final(_)
Final(p) ==
    LET above == {r \in renamed : StartsWith(p, r[1] \o SEP)}
    IN IF above = {} THEN p
       ELSE LET r == CHOOSE r \in above : TRUE IN Final(RenamePath(p, r[1], r[2]))

\* a recognized audio or playlist file lies at or below directory d
MediaBelow(d) ==
    \E f \in fsFiles : Ext(f) \in audio_ext \cup list_ext /\ StartsWith(f, d \o SEP)

\* C25: after check_unicode a directory with a non-displayable name was renamed
\* iff a recognized audio or playlist file lies at or below it, whatever its
\* siblings and the enumeration order; and what lies below a renamed directory
\* was renamed before the directory was
C25_DirectoryRenames ==
    pass = 1 =>
      /\ \A r \in renamed : Final(r[2]) \in fsDirs => MediaBelow(Final(r[2]))
      /\ \A d \in fsDirs :
           (StrictlyUnder(d, path) /\ raises_unicode_error(Basename(d))) => ~MediaBelow(d)
      /\ \A r1, r2 \in renamed : ~StartsWith(r2[1], r1[2] \o SEP)

-----------------------------------------------------------------------------
(* The unicode sanitizer: predicted names *)

\* C26: for every audio file that check_unicode renamed, validate_unicode
\* applied to the path the file had gives the path the file has after
\* check_unicode, the renamed directories above it included
C26_PredictedNames ==
    pass = 1 =>
      \A r \in renamed :
         (Ext(r[1]) \in audio_ext /\ Final(r[2]) \in fsFiles)
            => validate_unicode(r[1]) = Final(r[2])

-----------------------------------------------------------------------------
(* The identity of the master playlist *)

\* the hash of the sentinel of Playlist.set_master
SentinelDbid == Md5Dbid("masterlist")

\* C27: in every configuration the dbid of the master playlist is the hash of
\* the fixed sentinel string, and no clip is synthesized for it
C27_MasterIdentity ==
    /\ out.chunks # <<>> => out.chunks[1].dbid = SentinelDbid
    /\ \A k \in 1..Len(ttsCalls) : ttsCalls[k].wav # WavPath(SentinelDbid, TRUE)

-----------------------------------------------------------------------------
(* Referential integrity *)

\* the paths entry k of source i may be said to name: for a line of an .m3u file
\* the line from the directory of the playlist or from the working directory,
\* for any other entry the entry itself
NamedBy(i, k) ==
    IF i \in M3uSources
    THEN LET line == PathLines(out.read[i])[k]
         IN {Meant(line, lists[i].text), AbsPath(line)}
    ELSE {out.constructed[i].listtracks[k]}

\* C28: every track index stored in a playlist payload is below the number of
\* tracks and is the index of the track that the playlist entry names; the
\* master playlist holds the index of every track
C28_ReferentialIntegrity ==
    /\ \A i \in 1..Len(out.constructed) :
         LET c == out.constructed[i]
         IN \A k \in 1..Len(c.positions) :
               c.positions[k] > -1 =>
                  /\ c.positions[k] < Len(tracks)
                  /\ tracks[c.positions[k] + 1] \in NamedBy(i, k)
    /\ Written =>
         /\ Payloads[1].indices = [k \in 1..Len(tracks) |-> k - 1]
         /\ \A p \in 2..Len(Payloads) :
              \E i \in 1..Len(out.constructed) :
                 /\ Payloads[p] = out.constructed[i]
                 /\ Payloads[p].indices
                      = SelectSeq(out.constructed[i].positions, LAMBDA x : x > -1)

-----------------------------------------------------------------------------
(* Determinism of the track order *)

\* C29: two runs of Shuffler.populate over the same tree give the same track
\* order, whatever the orders in which the filesystem enumerates the entries
\* of a directory, also for names that differ in letter case only
C29_SameOrder == (scans # <<>> /\ ScanOver) => tracks = scans[1]

-----------------------------------------------------------------------------
(* The location of the device root *)

\* C30: once the device is scanned every audio file that is not hidden, not in
\* or below a hidden directory of the device and not below iPod_Control/Speakable
\* is in the track list, wherever the device root is, also when the root lies
\* below a directory whose name starts with a dot
C30_RootIndependent ==
    ScanOver =>
       \A f \in fsFiles :
          (Ext(f) \in audio_ext /\ ~Excluded(f)) => \E k \in 1..Len(tracks) : tracks[k] = f

=============================================================================
